---- MODULE Spec2Model ----
(***************************************************************************)
(* Model of api_gen.py: a Telegram bot that asks for a name and an email,  *)
(* registers the user in the SQLite table `users` with a fresh API token   *)
(* and afterwards appends every text message to the user's                 *)
(* conversation_history.                                                   *)
(*                                                                         *)
(* Texts, tokens, replies and histories are sequences of one-character     *)
(* strings (prompts are kept as one segment), so formatting is modelled    *)
(* as the concatenation the f-strings perform.                             *)
(***************************************************************************)
EXTENDS Integers, Sequences, FiniteSets, Bags, TLC

\* ---------------------------------------------------------------- bounds
NumConvs == 2
NumTokens == 2
MaxUpdates == 4
MaxLen == 6
MaxAwaiting == 2

Convs == 1..NumConvs

\* ----------------------------------------------------------------- texts
\* Representatives of the characters matched by \w.
WordChars == {"a", "A", "b", "c"}

\* The character class [\w\.-] of the email pattern.
LocalChars == WordChars \cup {".", "-"}

\* A plain word: a name, a chat message, and not an email.
NameA == <<"a">>
Email1 == <<"a", "@", "b", ".", "c">>
Email2 == <<"A", "@", "b", ".", "c">>

\* update.message.text of the inbound text messages.
Texts == {NameA, Email1, Email2}

Digits == <<"0", "1", "2", "3", "4", "5", "6", "7", "8", "9">>

\* str(uuid.uuid4()): the i-th value the generator can return.
generate_api_token(i) == <<"u", Digits[i + 1]>>

Tokens == {generate_api_token(i) : i \in 1..NumTokens}

\* dict.get(key) without a default, and "no value" in the io record.
None == <<"None">>

\* --------------------------------------------------------------- replies
\* The reply texts, in ASCII: the source's Ukrainian literals in translation.
NamePrompt == <<"Hello! Please enter your name.">>
EmailPrompt(name) == <<"Thank you, ">> \o name \o <<"! Now, please enter your email.">>
TokenReply(api_token) == <<"Your API token: ">> \o api_token
AlreadyRegistered == <<"This email is already registered. Use another one.">>
InvalidFormat == <<"Invalid email format. Please try again.">>
Saved == <<"Message saved.">>
Unknown == <<"Unknown">>

\* ------------------------------------------------------------- user_data
\* context.user_data is a dict: a function whose domain is the keys set.
EmptyDict == [k \in {} |-> None]
Get(d, k, default) == IF k \in DOMAIN d THEN d[k] ELSE default
Set(d, k, v) == [x \in (DOMAIN d) \cup {k} |-> IF x = k THEN v ELSE d[x]]

\* step = context.user_data.get('step', 'name')
Step(d) == Get(d, "step", "name")

\* ---------------------------------------------------------- email format
\* re.match(r'^[\w\.-]+@[\w\.-]+\.\w+$', email): '$' matches at the end of
\* the string and also just before a newline that ends the string.
is_valid_email(email) ==
    LET n == Len(email)
        end == IF n > 0 /\ email[n] = "\n" THEN {n, n - 1} ELSE {n}
    IN \E e \in end, i \in 1..n, j \in 1..n :
          /\ 1 < i /\ i + 1 < j /\ j < e
          /\ email[i] = "@"
          /\ email[j] = "."
          /\ \A k \in 1..(i - 1) : email[k] \in LocalChars
          /\ \A k \in (i + 1)..(j - 1) : email[k] \in LocalChars
          /\ \A k \in (j + 1)..e : email[k] \in WordChars

\* ----------------------------------------------------------- users table
VARIABLES users, user_data, io, chat_msgs, tokens_sent, updates, awaiting

vars == <<users, user_data, io, chat_msgs, tokens_sent, updates, awaiting>>

\* Mutant of Insert: the email column is not UNIQUE.
Insert_email_not_unique(rows, email, api_token, name, history) ==
    IF \E r \in 1..Len(rows) : rows[r].api_token = api_token
    THEN [integrity_error |-> TRUE, rows |-> rows]
    ELSE [integrity_error |-> FALSE,
          rows |-> Append(rows, [id |-> Len(rows) + 1,
                                 email |-> email,
                                 api_token |-> api_token,
                                 name |-> name,
                                 conversation_history |-> history])]

\* Mutant of Insert: the api_token column is not UNIQUE.
Insert_token_not_unique(rows, email, api_token, name, history) ==
    IF \E r \in 1..Len(rows) : rows[r].email = email
    THEN [integrity_error |-> TRUE, rows |-> rows]
    ELSE [integrity_error |-> FALSE,
          rows |-> Append(rows, [id |-> Len(rows) + 1,
                                 email |-> email,
                                 api_token |-> api_token,
                                 name |-> name,
                                 conversation_history |-> history])]

\* INSERT INTO users (email, api_token, name, conversation_history): the
\* UNIQUE constraints on email and api_token raise sqlite3.IntegrityError.
Insert(rows, email, api_token, name, history) ==
    IF \E r \in 1..Len(rows) :
          rows[r].email = email \/ rows[r].api_token = api_token
    THEN [integrity_error |-> TRUE, rows |-> rows]
    ELSE [integrity_error |-> FALSE,
          rows |-> Append(rows, [id |-> Len(rows) + 1,
                                 email |-> email,
                                 api_token |-> api_token,
                                 name |-> name,
                                 conversation_history |-> history])]

\* SELECT conversation_history FROM users WHERE email = ? (all rows).
SelectHistory(rows, email) ==
    LET Match(r) == email # None /\ r.email = email
    IN SelectSeq(rows, Match)

\* Mutant of UpdateHistory: the UPDATE has no WHERE clause.
UpdateHistory_every_row(rows, new_history, email) ==
    [r \in 1..Len(rows) |->
        [rows[r] EXCEPT !.conversation_history = new_history]]

\* UPDATE users SET conversation_history = ? WHERE email = ?
UpdateHistory(rows, new_history, email) ==
    [r \in 1..Len(rows) |->
        IF email # None /\ rows[r].email = email
        THEN [rows[r] EXCEPT !.conversation_history = new_history]
        ELSE rows[r]]

\* Mutant of NewHistory: the new message is put in front of the history.
NewHistory_prepends(history, message) ==
    IF history # <<>>
    THEN <<"\"">> \o message \o <<"\"", ",", " ">> \o history
    ELSE <<"\"">> \o message \o <<"\"">>

\* Mutant of NewHistory: the new message replaces the history.
NewHistory_overwrites(history, message) ==
    <<"\"">> \o message \o <<"\"">>

\* new_history = f'{history}, "{message}"' if history else f'"{message}"'
NewHistory(history, message) ==
    IF history # <<>>
    THEN history \o <<",", " ", "\"">> \o message \o <<"\"">>
    ELSE <<"\"">> \o message \o <<"\"">>

\* ------------------------------------------------------------------ Init
\* create_db() leaves an empty table; no conversation has a context yet.
Init ==
    /\ users = <<>>
    /\ user_data = [c \in Convs |-> EmptyDict]
    /\ io = [conv |-> 0, command |-> FALSE, text |-> None, token |-> None,
             reply |-> None, raised |-> FALSE]
    /\ chat_msgs = [e \in Texts |-> <<>>]
    /\ tokens_sent = {}
    /\ updates = 0
    /\ awaiting = EmptyBag

\* The inbound event and what the handler sent back; raised: reply_text
\* raised, so the handler stopped at that await.
Io(c, command, text, token, reply, delivered) ==
    [conv |-> c, command |-> command, text |-> text, token |-> token,
     reply |-> IF delivered THEN reply ELSE None, raised |-> ~delivered]

\* Mutant of start: the step is set only when the context has none
\* (setdefault instead of an assignment).
start_keeps_step(c, delivered) ==
    /\ io' = Io(c, TRUE, None, None, NamePrompt, delivered)
    /\ user_data' = IF delivered /\ "step" \notin DOMAIN user_data[c]
                    THEN [user_data EXCEPT ![c] = Set(@, "step", "name")]
                    ELSE user_data
    /\ UNCHANGED <<users, chat_msgs, tokens_sent>>

\* ----------------------------------------------------------------- start
start(c, delivered) ==
    /\ io' = Io(c, TRUE, None, None, NamePrompt, delivered)
    /\ user_data' = IF delivered
                    THEN [user_data EXCEPT ![c] = Set(@, "step", "name")]
                    ELSE user_data
    /\ UNCHANGED <<users, chat_msgs, tokens_sent>>

\* Mutant of name_branch: the text is not stored as the staged name.
name_branch_forgets_name(c, message, delivered) ==
    /\ io' = Io(c, FALSE, message, None, EmailPrompt(message), delivered)
    /\ user_data' = IF delivered
                    THEN [user_data EXCEPT ![c] = Set(@, "step", "email")]
                    ELSE user_data
    /\ UNCHANGED <<users, chat_msgs, tokens_sent>>

\* -------------------------------------------------------- handle_message
name_branch(c, message, delivered) ==
    LET named == Set(user_data[c], "name", message)
    IN /\ io' = Io(c, FALSE, message, None, EmailPrompt(message), delivered)
       /\ user_data' = [user_data EXCEPT ![c] =
                           IF delivered THEN Set(named, "step", "email")
                           ELSE named]
       /\ UNCHANGED <<users, chat_msgs, tokens_sent>>

\* Mutant of email_branch: the two context assignments are dedented out of
\* the try and the if, so they run after every reply of the branch.
email_branch_always_advances(c, message, i, delivered) ==
    LET advanced == IF delivered
                    THEN [user_data EXCEPT ![c] =
                             Set(Set(@, "step", "chat"), "email", message)]
                    ELSE user_data
    IN IF is_valid_email(message)
       THEN LET api_token == generate_api_token(i)
                name == Get(user_data[c], "name", Unknown)
                ins == Insert(users, message, api_token, name, <<>>)
            IN IF ins.integrity_error
               THEN /\ io' = Io(c, FALSE, message, api_token, AlreadyRegistered, delivered)
                    /\ user_data' = advanced
                    /\ UNCHANGED <<users, chat_msgs, tokens_sent>>
               ELSE /\ users' = ins.rows
                    /\ io' = Io(c, FALSE, message, api_token, TokenReply(api_token), delivered)
                    /\ user_data' = advanced
                    /\ tokens_sent' = IF delivered
                                      THEN tokens_sent \cup {api_token}
                                      ELSE tokens_sent
                    /\ UNCHANGED chat_msgs
       ELSE /\ io' = Io(c, FALSE, message, None, InvalidFormat, delivered)
            /\ user_data' = advanced
            /\ UNCHANGED <<users, chat_msgs, tokens_sent>>

email_branch(c, message, i, delivered) ==
    IF is_valid_email(message)
    THEN LET api_token == generate_api_token(i)
             name == Get(user_data[c], "name", Unknown)
             ins == Insert(users, message, api_token, name, <<>>)
         IN IF ins.integrity_error
            THEN /\ io' = Io(c, FALSE, message, api_token, AlreadyRegistered, delivered)
                 /\ UNCHANGED <<users, user_data, chat_msgs, tokens_sent>>
            ELSE /\ users' = ins.rows
                 /\ io' = Io(c, FALSE, message, api_token, TokenReply(api_token), delivered)
                 /\ user_data' = IF delivered
                                 THEN [user_data EXCEPT ![c] =
                                          Set(Set(@, "step", "chat"), "email", message)]
                                 ELSE user_data
                 /\ tokens_sent' = IF delivered
                                   THEN tokens_sent \cup {api_token}
                                   ELSE tokens_sent
                 /\ UNCHANGED chat_msgs
    ELSE /\ io' = Io(c, FALSE, message, None, InvalidFormat, delivered)
         /\ UNCHANGED <<users, user_data, chat_msgs, tokens_sent>>

\* Mutant of chat_branch: after saving the message the dialogue starts over.
chat_branch_restarts(c, message, delivered) ==
    LET email == Get(user_data[c], "email", None)
        result == SelectHistory(users, email)
    IN /\ users' = IF result # <<>>
                   THEN UpdateHistory(users,
                            NewHistory(result[1].conversation_history, message),
                            email)
                   ELSE users
       /\ chat_msgs' = IF email \in Texts
                       THEN [chat_msgs EXCEPT ![email] = Append(@, message)]
                       ELSE chat_msgs
       /\ io' = Io(c, FALSE, message, None, Saved, delivered)
       /\ user_data' = IF delivered
                       THEN [user_data EXCEPT ![c] = Set(@, "step", "email")]
                       ELSE user_data
       /\ UNCHANGED tokens_sent

\* Mutant of chat_branch: a message for an email without a row inserts one
\* (an upsert instead of the guarded UPDATE).
chat_branch_upserts(c, message, delivered) ==
    LET email == Get(user_data[c], "email", None)
        result == SelectHistory(users, email)
    IN /\ users' = IF result # <<>>
                   THEN UpdateHistory(users,
                            NewHistory(result[1].conversation_history, message),
                            email)
                   ELSE Append(users, [id |-> Len(users) + 1,
                                       email |-> email,
                                       api_token |-> None,
                                       name |-> Get(user_data[c], "name", Unknown),
                                       conversation_history |-> NewHistory(<<>>, message)])
       /\ chat_msgs' = IF email \in Texts
                       THEN [chat_msgs EXCEPT ![email] = Append(@, message)]
                       ELSE chat_msgs
       /\ io' = Io(c, FALSE, message, None, Saved, delivered)
       /\ UNCHANGED <<user_data, tokens_sent>>

chat_branch(c, message, delivered) ==
    LET email == Get(user_data[c], "email", None)
        result == SelectHistory(users, email)
    IN /\ users' = IF result # <<>>
                   THEN UpdateHistory(users,
                            NewHistory(result[1].conversation_history, message),
                            email)
                   ELSE users
       /\ chat_msgs' = IF email \in Texts
                       THEN [chat_msgs EXCEPT ![email] = Append(@, message)]
                       ELSE chat_msgs
       /\ io' = Io(c, FALSE, message, None, Saved, delivered)
       /\ UNCHANGED <<user_data, tokens_sent>>

handle_message(c, message, i, delivered) ==
    LET step == Step(user_data[c])
    IN CASE step = "name" -> name_branch(c, message, delivered)
         [] step = "email" -> email_branch(c, message, i, delivered)
         [] step = "chat" -> chat_branch(c, message, delivered)

\* --------------------------------------------------------------- updates
\* run_polling() hands the updates to the handlers one at a time: a handler
\* runs to its end before the next update, none is left suspended.
Polled == updates < MaxUpdates /\ updates' = updates + 1 /\ UNCHANGED awaiting

StartCommand ==
    \E c \in Convs, delivered \in BOOLEAN : Polled /\ start(c, delivered)

TextMessage ==
    \E c \in Convs, message \in Texts, i \in 1..NumTokens, delivered \in BOOLEAN :
        Polled /\ handle_message(c, message, i, delivered)

Next == StartCommand \/ TextMessage

Spec == Init /\ [][Next]_vars

\* ------------------------------------------------------ outside the bot
\* No update is being handled.
NoUpdate ==
    [conv |-> 0, command |-> FALSE, text |-> None, token |-> None,
     reply |-> None, raised |-> FALSE]

\* telegram_users.db is an ordinary file: another program deletes a row.
\* The id of the row stays used (AUTOINCREMENT), its columns are gone.
RowDeleted ==
    \E r \in 1..Len(users) :
       /\ users[r].email # None
       /\ users' = [users EXCEPT ![r] = [id |-> r, email |-> None,
                                         api_token |-> None, name |-> None,
                                         conversation_history |-> <<>>]]
       /\ io' = NoUpdate
       /\ UNCHANGED <<user_data, chat_msgs, tokens_sent, updates, awaiting>>

NextStoreEdited == StartCommand \/ TextMessage \/ RowDeleted

SpecStoreEdited == Init /\ [][NextStoreEdited]_vars

\* The process is restarted.
Stopped ==
    [conv |-> 0, command |-> TRUE, text |-> None, token |-> None,
     reply |-> None, raised |-> FALSE]

\* Mutant of Restart: the contexts survive the restart (a persistence is
\* configured for the application).
Restart_keeps_contexts ==
    /\ io # Stopped
    /\ io' = Stopped
    /\ UNCHANGED <<users, user_data, chat_msgs, tokens_sent, updates, awaiting>>

\* The process stops and main() runs again: create_db() keeps the table
\* (CREATE TABLE IF NOT EXISTS), the application is built without
\* persistence, so every context.user_data starts empty.
Restart ==
    /\ io # Stopped
    /\ io' = Stopped
    /\ user_data' = [c \in Convs |-> EmptyDict]
    /\ UNCHANGED <<users, chat_msgs, tokens_sent, updates, awaiting>>

NextRestart == StartCommand \/ TextMessage \/ Restart

SpecRestart == Init /\ [][NextRestart]_vars

\* ------------------------------------------------------ any text at all
\* The characters of the texts tried as emails: word characters, the two
\* other characters of the class, '@', a newline and a blank.
Alphabet == {"a", "A", ".", "-", "@", "\n", " "}

\* Every text of at most MaxLen characters.
Strings == UNION {[1..n -> Alphabet] : n \in 1..MaxLen}

Registered == <<"a", "@", "a", ".", "a">>

\* Conversation 2 has registered a@a.a (name, email: two updates) and
\* conversation 1 has sent its name: it is in step 'email'.
InitEmail ==
    /\ users = <<[id |-> 1, email |-> Registered,
                  api_token |-> generate_api_token(1), name |-> NameA,
                  conversation_history |-> <<>>]>>
    /\ user_data = [c \in Convs |->
                       IF c = 1 THEN Set(Set(EmptyDict, "name", NameA), "step", "email")
                       ELSE IF c = 2
                       THEN Set(Set(Set(EmptyDict, "name", NameA), "step", "chat"),
                                "email", Registered)
                       ELSE EmptyDict]
    /\ io = Io(1, FALSE, NameA, None, EmailPrompt(NameA), TRUE)
    /\ chat_msgs = [e \in Texts |-> <<>>]
    /\ tokens_sent = {generate_api_token(1)}
    /\ updates = 3
    /\ awaiting = EmptyBag

\* The next update is a text message of conversation 1, any text.
EmailCandidate ==
    /\ updates = 3
    /\ \E email \in Strings, i \in 1..NumTokens, delivered \in BOOLEAN :
          Polled /\ handle_message(1, email, i, delivered)

NextEmail == EmailCandidate

SpecEmail == InitEmail /\ [][NextEmail]_vars

\* ------------------------------------------------- overlapping handlers
\* The handlers are coroutines: when updates are dispatched concurrently a
\* handler runs from one await to the next without interruption and other
\* handlers run while it is suspended. The only awaits are the reply_text
\* calls; the sqlite3 calls are synchronous. awaiting holds the handlers
\* suspended at their reply_text: the reply to send and the assignments
\* that follow it (then).
Suspended(c, command, text, token, reply, then) ==
    [conv |-> c, command |-> command, text |-> text, token |-> token,
     reply |-> reply, then |-> then]

\* The update of a handler that has started and not replied yet.
Started(c, command, text, token) ==
    [conv |-> c, command |-> command, text |-> text, token |-> token,
     reply |-> None, raised |-> FALSE]

Dispatched ==
    /\ updates < MaxUpdates
    /\ BagCardinality(awaiting) < MaxAwaiting
    /\ updates' = updates + 1

\* start up to its await.
begin_start(c) ==
    /\ awaiting' = awaiting (+) SetToBag({Suspended(c, TRUE, None, None, NamePrompt, "name")})
    /\ io' = Started(c, TRUE, None, None)
    /\ UNCHANGED <<users, user_data, chat_msgs, tokens_sent>>

\* The name branch up to its await: the name is staged before the reply.
begin_name(c, message) ==
    /\ user_data' = [user_data EXCEPT ![c] = Set(@, "name", message)]
    /\ awaiting' = awaiting (+) SetToBag({Suspended(c, FALSE, message, None,
                                                    EmailPrompt(message), "email")})
    /\ io' = Started(c, FALSE, message, None)
    /\ UNCHANGED <<users, chat_msgs, tokens_sent>>

\* The email branch up to its await: the INSERT is committed before the
\* reply, the context is assigned after it.
begin_email(c, message, i) ==
    IF is_valid_email(message)
    THEN LET api_token == generate_api_token(i)
             name == Get(user_data[c], "name", Unknown)
             ins == Insert(users, message, api_token, name, <<>>)
         IN /\ users' = ins.rows
            /\ awaiting' = awaiting (+) SetToBag({
                   IF ins.integrity_error
                   THEN Suspended(c, FALSE, message, api_token, AlreadyRegistered, "none")
                   ELSE Suspended(c, FALSE, message, api_token, TokenReply(api_token), "chat")})
            /\ io' = Started(c, FALSE, message, api_token)
            /\ UNCHANGED <<user_data, chat_msgs, tokens_sent>>
    ELSE /\ awaiting' = awaiting (+) SetToBag({Suspended(c, FALSE, message, None,
                                                      InvalidFormat, "none")})
         /\ io' = Started(c, FALSE, message, None)
         /\ UNCHANGED <<users, user_data, chat_msgs, tokens_sent>>

\* Mutant of begin_chat: while another chat handler of the conversation is
\* suspended the UPDATE is not built on the history just read, so that
\* handler's message is lost.
begin_chat_stale_read(c, message) ==
    LET email == Get(user_data[c], "email", None)
        result == SelectHistory(users, email)
        busy == \E h \in BagToSet(awaiting) : h.conv = c /\ h.reply = Saved
    IN /\ users' = IF result # <<>>
                   THEN UpdateHistory(users,
                            IF busy THEN NewHistory(<<>>, message)
                            ELSE NewHistory(result[1].conversation_history, message),
                            email)
                   ELSE users
       /\ chat_msgs' = IF email \in Texts
                       THEN [chat_msgs EXCEPT ![email] = Append(@, message)]
                       ELSE chat_msgs
       /\ awaiting' = awaiting (+) SetToBag({Suspended(c, FALSE, message, None, Saved, "none")})
       /\ io' = Started(c, FALSE, message, None)
       /\ UNCHANGED <<user_data, tokens_sent>>

\* The chat branch up to its await: SELECT, UPDATE and commit run without
\* an await between them.
begin_chat(c, message) ==
    LET email == Get(user_data[c], "email", None)
        result == SelectHistory(users, email)
    IN /\ users' = IF result # <<>>
                   THEN UpdateHistory(users,
                            NewHistory(result[1].conversation_history, message),
                            email)
                   ELSE users
       /\ chat_msgs' = IF email \in Texts
                       THEN [chat_msgs EXCEPT ![email] = Append(@, message)]
                       ELSE chat_msgs
       /\ awaiting' = awaiting (+) SetToBag({Suspended(c, FALSE, message, None, Saved, "none")})
       /\ io' = Started(c, FALSE, message, None)
       /\ UNCHANGED <<user_data, tokens_sent>>

begin_message(c, message, i) ==
    LET step == Step(user_data[c])
    IN CASE step = "name" -> begin_name(c, message)
         [] step = "email" -> begin_email(c, message, i)
         [] step = "chat" -> begin_chat(c, message)

\* A suspended handler goes on: reply_text returns or raises, and after a
\* delivered reply the handler's last assignments run.
resume(h, delivered) ==
    /\ awaiting' = awaiting (-) SetToBag({h})
    /\ io' = Io(h.conv, h.command, h.text, h.token, h.reply, delivered)
    /\ user_data' =
          IF ~delivered \/ h.then = "none" THEN user_data
          ELSE IF h.then = "chat"
          THEN [user_data EXCEPT ![h.conv] =
                   Set(Set(@, "step", "chat"), "email", h.text)]
          ELSE [user_data EXCEPT ![h.conv] = Set(@, "step", h.then)]
    /\ tokens_sent' = IF delivered /\ h.then = "chat"
                      THEN tokens_sent \cup {h.token}
                      ELSE tokens_sent
    /\ UNCHANGED <<users, chat_msgs, updates>>

StartBegins == \E c \in Convs : Dispatched /\ begin_start(c)

MessageBegins ==
    \E c \in Convs, message \in Texts, i \in 1..NumTokens :
        Dispatched /\ begin_message(c, message, i)

ReplyReturns ==
    \E h \in BagToSet(awaiting), delivered \in BOOLEAN : resume(h, delivered)

NextConcurrent == StartBegins \/ MessageBegins \/ ReplyReturns

\* Conversation 1 has given its name and registered Email1, one update
\* after the other, and is in step 'chat'; the other conversations are new.
InitChat ==
    /\ users = <<[id |-> 1, email |-> Email1,
                  api_token |-> generate_api_token(1), name |-> NameA,
                  conversation_history |-> <<>>]>>
    /\ user_data = [c \in Convs |->
                       IF c = 1
                       THEN Set(Set(Set(EmptyDict, "name", NameA), "step", "chat"),
                                "email", Email1)
                       ELSE EmptyDict]
    /\ io = Io(1, FALSE, Email1, generate_api_token(1),
               TokenReply(generate_api_token(1)), TRUE)
    /\ chat_msgs = [e \in Texts |-> <<>>]
    /\ tokens_sent = {generate_api_token(1)}
    /\ updates = 2
    /\ awaiting = EmptyBag

SpecConcurrent == InitChat /\ [][NextConcurrent]_vars

\* ======================================================================
\* Properties
\* ======================================================================

\* The row(s) of the table holding the given email / the given token.
RowsWithEmail(rows, email) == {r \in 1..Len(rows) : rows[r].email = email}
RowsWithToken(rows, api_token) == {r \in 1..Len(rows) : rows[r].api_token = api_token}

\* The update just handled was a text message of c (handle_message ran).
TextOf(c) == io'.conv = c /\ ~io'.command

\* The update just handled was the /start command of c (start ran).
CommandOf(c) == io'.conv = c /\ io'.command

\* C1 (as stated): once a conversation's step is 'chat', no later update of
\* that conversation, text message or /start, makes it 'name' or 'email'.
C1_ChatTerminal ==
    [][\A c \in Convs :
          Step(user_data[c]) = "chat" => Step(user_data'[c]) = "chat"]_vars

\* C1 (amended): once a conversation's step is 'chat', no text message
\* handled by handle_message changes it; the step leaves 'chat' only by a
\* delivered /start of that conversation, which makes it 'name'.
C1_ChatLeftOnlyByStart ==
    [][\A c \in Convs :
          Step(user_data[c]) = "chat" =>
             \/ Step(user_data'[c]) = "chat"
             \/ /\ CommandOf(c) /\ ~io'.raised
                /\ Step(user_data'[c]) = "name"]_vars

\* A text message was handled in step 'chat' and the step is still 'chat'.
C1_Witness ==
    /\ io.conv \in Convs /\ ~io.command /\ io.reply = Saved
    /\ Step(user_data[io.conv]) = "chat"

\* C2 (as stated): the first reply to a conversation without a context is
\* the name prompt, whatever the first update is, and its step is then
\* 'name'; from step 'name' the next text message moves the step to 'email'.
C2_FreshGetsNamePrompt ==
    [][\A c \in Convs :
          /\ (DOMAIN user_data[c] = {} /\ io'.conv = c /\ ~io'.raised) =>
                /\ io'.reply = NamePrompt
                /\ Step(user_data'[c]) = "name"
          /\ ("step" \in DOMAIN user_data[c] /\ user_data[c].step = "name"
                /\ TextOf(c) /\ ~io'.raised) =>
                Step(user_data'[c]) = "email"]_vars

\* C3 (as stated): in step 'email' a grammar-valid text that is no record's
\* email adds exactly one record (that email, the staged name, the generated
\* token, empty history), leaves the other records alone, sends the token,
\* stages the email and moves to 'chat'; the record reads back the same.
C3_ValidUnregisteredCreates ==
    [][\A c \in Convs :
          (/\ TextOf(c) /\ ~io'.raised
           /\ Step(user_data[c]) = "email"
           /\ is_valid_email(io'.text)
           /\ RowsWithEmail(users, io'.text) = {}) =>
             /\ Len(users') = Len(users) + 1
             /\ SubSeq(users', 1, Len(users)) = users
             /\ users'[Len(users')].email = io'.text
             /\ users'[Len(users')].name = user_data[c].name
             /\ users'[Len(users')].api_token = io'.token
             /\ users'[Len(users')].conversation_history = <<>>
             /\ io'.reply = TokenReply(io'.token)
             /\ RowsWithEmail(users', io'.text) = {Len(users')}
             /\ Step(user_data'[c]) = "chat"
             /\ Get(user_data'[c], "email", None) = io'.text]_vars

\* C4: in step 'email' a grammar-valid text that is already some record's
\* email gets the 'already registered' reply, which is not the
\* invalid-format reply; the table and the conversation's context (step
\* 'email', staged name and email) are exactly as before.
C4_DuplicateEmailRejected ==
    [][\A c \in Convs :
          (/\ TextOf(c)
           /\ Step(user_data[c]) = "email"
           /\ is_valid_email(io'.text)
           /\ RowsWithEmail(users, io'.text) # {}) =>
             /\ ~io'.raised => io'.reply = AlreadyRegistered
             /\ io'.reply # InvalidFormat
             /\ io'.reply # TokenReply(io'.token)
             /\ users' = users
             /\ user_data' = user_data
             /\ Step(user_data'[c]) = "email"
             /\ tokens_sent' = tokens_sent]_vars

\* The 'already registered' reply was sent for an email another
\* conversation's record holds.
C4_Witness ==
    /\ io.reply = AlreadyRegistered
    /\ RowsWithEmail(users, io.text) # {}
    /\ Step(user_data[io.conv]) = "email"
    /\ "email" \notin DOMAIN user_data[io.conv]

Quoted(message) == <<"\"">> \o message \o <<"\"">>

\* The history text that holds the given messages in order, each once:
\* the quoted segments separated by ', '.
RECURSIVE Serialized(_)
Serialized(msgs) ==
    IF msgs = <<>> THEN <<>>
    ELSE IF Len(msgs) = 1 THEN Quoted(msgs[1])
    ELSE Quoted(Head(msgs)) \o <<",", " ">> \o Serialized(Tail(msgs))

\* C6: the history of a record holds exactly the messages that were handled
\* in step 'chat' under its email, in arrival order, each once; a message
\* handled in step 'chat' leaves the step 'chat' and is acknowledged.
C6_HistoryKeepsEveryMessageInOrder ==
    /\ [](\A r \in 1..Len(users) :
             users[r].conversation_history = Serialized(chat_msgs[users[r].email]))
    /\ [][\A c \in Convs :
             (TextOf(c) /\ Step(user_data[c]) = "chat") =>
                /\ Step(user_data'[c]) = "chat"
                /\ ~io'.raised => io'.reply = Saved
                /\ chat_msgs'[user_data[c].email] =
                      Append(chat_msgs[user_data[c].email], io'.text)]_vars

\* Two different messages were handled in step 'chat' and the record's
\* history holds both.
C6_Witness ==
    \E r \in 1..Len(users) :
       /\ Len(chat_msgs[users[r].email]) = 2
       /\ chat_msgs[users[r].email][1] # chat_msgs[users[r].email][2]
       /\ io.reply = Saved

\* C7: no two records have the same email, and an INSERT of an email that
\* is already present fails and leaves the table as it is.
C7_EmailUnique ==
    /\ \A r1, r2 \in 1..Len(users) :
          users[r1].email = users[r2].email => r1 = r2
    /\ \A email \in Texts, api_token \in Tokens :
          RowsWithEmail(users, email) # {} =>
             /\ Insert(users, email, api_token, NameA, <<>>).integrity_error
             /\ Insert(users, email, api_token, NameA, <<>>).rows = users

\* Two conversations registered and a registration of a present email was
\* rejected.
C7_Witness ==
    /\ Len(users) = 2
    /\ io.reply = AlreadyRegistered
    /\ RowsWithEmail(users, io.text) # {}

\* C8: /start, at any step or without a context, never changes the table;
\* when its reply is delivered the reply is the name prompt and the step
\* is 'name', the rest of the context being kept.
C8_StartResets ==
    [][\A c \in Convs :
          CommandOf(c) =>
             /\ users' = users
             /\ tokens_sent' = tokens_sent
             /\ \A o \in Convs \ {c} : user_data'[o] = user_data[o]
             /\ ~io'.raised =>
                   /\ io'.reply = NamePrompt
                   /\ "step" \in DOMAIN user_data'[c]
                   /\ user_data'[c].step = "name"
                   /\ user_data'[c] = Set(user_data[c], "step", "name")]_vars

\* /start was handled for a conversation that had registered: it is back
\* in step 'name' while its record is still in the table.
C8_Witness ==
    /\ io.command /\ io.reply = NamePrompt
    /\ user_data[io.conv].step = "name"
    /\ "email" \in DOMAIN user_data[io.conv]
    /\ RowsWithEmail(users, user_data[io.conv].email) # {}

\* C9: no two records hold the same token, and every token sent in a token
\* reply is the token of exactly one record, also when uuid4 repeats.
C9_TokenUnique ==
    /\ \A r1, r2 \in 1..Len(users) :
          users[r1].api_token = users[r2].api_token => r1 = r2
    /\ \A api_token \in tokens_sent :
          Cardinality(RowsWithToken(users, api_token)) = 1

\* The generator returned a token that a record already holds, and the
\* registration was refused although the email was not registered.
C9_Witness ==
    /\ io.token \in tokens_sent
    /\ io.reply = AlreadyRegistered
    /\ RowsWithEmail(users, io.text) = {}
    /\ Cardinality(RowsWithToken(users, io.token)) = 1

\* C10: a record is never deleted and its id, email, name and token never
\* change; its history either stays or becomes the old history followed by
\* one more quoted message.
C10_RecordsOnlyGrowHistory ==
    [][/\ Len(users') >= Len(users)
       /\ \A r \in 1..Len(users) :
             /\ users'[r].id = users[r].id
             /\ users'[r].email = users[r].email
             /\ users'[r].name = users[r].name
             /\ users'[r].api_token = users[r].api_token
             /\ \/ users'[r].conversation_history = users[r].conversation_history
                \/ /\ ~io'.command
                   /\ users'[r].conversation_history =
                         users[r].conversation_history
                         \o (IF users[r].conversation_history = <<>>
                             THEN <<>> ELSE <<",", " ">>)
                         \o Quoted(io'.text)]_vars

\* A record whose history was extended next to another record that was
\* left alone: the table has seen inserts and a history update.
C10_Witness ==
    \E r1, r2 \in 1..Len(users) :
       /\ r1 # r2
       /\ users[r1].conversation_history = Quoted(io.text)
       /\ users[r2].conversation_history = <<>>
       /\ io.reply = Saved

\* C13 (as stated): the 'already registered' reply is sent only when the
\* submitted email itself is in the table; a grammar-valid unregistered
\* email whose generated token a record already holds does not get it.
C13_AlreadyRegisteredOnlyForEmails ==
    [][\A c \in Convs :
          (TextOf(c) /\ io'.reply = AlreadyRegistered) =>
             RowsWithEmail(users, io'.text) # {}]_vars

\* C14 (as stated): two different conversations in step 'email' submit the
\* same grammar-valid email one after the other while the table is still
\* empty (the two names were the first two updates): exactly one of them
\* inserts the record, gets the token and moves to 'chat', the other gets
\* 'already registered' and stays in 'email'; one record holds the email.
C14_OneOfTwoRegisters ==
    [][\A c, d \in Convs :
          (/\ c # d
           /\ updates = 3
           /\ io.conv = d /\ ~io.command /\ io.token # None
           /\ TextOf(c) /\ io'.text = io.text
           /\ Step(user_data[c]) = "email") =>
             /\ Cardinality(RowsWithEmail(users', io.text)) = 1
             /\ \/ /\ io.reply = TokenReply(io.token)
                   /\ Step(user_data'[d]) = "chat"
                   /\ io'.reply = AlreadyRegistered
                   /\ Step(user_data'[c]) = "email"
                \/ /\ io.reply = AlreadyRegistered
                   /\ Step(user_data'[d]) = "email"
                   /\ io'.reply = TokenReply(io'.token)
                   /\ Step(user_data'[c]) = "chat"]_vars

C18_ChatHasRecord ==
    \A c \in Convs :
       ("step" \in DOMAIN user_data[c] /\ user_data[c].step = "chat") =>
          /\ "email" \in DOMAIN user_data[c]
          /\ Cardinality(RowsWithEmail(users, user_data[c].email)) = 1
          /\ SelectHistory(users, Get(user_data[c], "email", None)) # <<>>

\* A conversation is in step 'chat' after a message of it was saved.
C18_Witness ==
    /\ io.conv \in Convs /\ io.reply = Saved
    /\ user_data[io.conv].step = "chat"
    /\ RowsWithEmail(users, user_data[io.conv].email) # {}

\* C19 (as stated): when the handling of an email-step message ends, in
\* whatever way, a record was inserted if and only if the step became
\* 'chat' and the staged email the submitted address; no record is left
\* behind with its conversation still in step 'email'.
C19_RegistrationAllOrNothing ==
    [][\A c \in Convs :
          (TextOf(c) /\ Step(user_data[c]) = "email") =>
             (Len(users') = Len(users) + 1
                <=> /\ Step(user_data'[c]) = "chat"
                    /\ Get(user_data'[c], "email", None) = io'.text)]_vars

\* C20: a conversation in step 'email' has a staged name; the staged name
\* is set by name-step messages only, to the message text; an inserted
\* record takes the staged name, so no record has the fallback name.
C20_StagedNameIsLastNameMessage ==
    /\ [](/\ \A c \in Convs :
               Step(user_data[c]) = "email" => "name" \in DOMAIN user_data[c]
          /\ \A r \in 1..Len(users) :
               users[r].name # Unknown /\ users[r].name \in Texts)
    /\ [][\A c \in Convs :
             /\ (TextOf(c) /\ Step(user_data[c]) = "name") =>
                   Get(user_data'[c], "name", None) = io'.text
             /\ ~(TextOf(c) /\ Step(user_data[c]) = "name") =>
                   Get(user_data'[c], "name", None) = Get(user_data[c], "name", None)
             /\ (TextOf(c) /\ Len(users') = Len(users) + 1) =>
                   users'[Len(users')].name = user_data[c].name]_vars

\* A record was inserted with the name its conversation sent in step 'name'.
C20_Witness ==
    /\ io.conv \in Convs /\ io.reply = TokenReply(io.token)
    /\ users[Len(users)].name = user_data[io.conv].name
    /\ users[Len(users)].email = io.text

\* C11: a message handled in step 'chat' while no row holds the staged
\* email (or no email is staged) leaves the table as it is, raises nothing
\* of its own, keeps the context (step 'chat') and is acknowledged.
C11_ChatWithoutRecord ==
    [][\A c \in Convs :
          (/\ TextOf(c)
           /\ Step(user_data[c]) = "chat"
           /\ RowsWithEmail(users, Get(user_data[c], "email", None)) = {}) =>
             /\ users' = users
             /\ user_data' = user_data
             /\ Step(user_data'[c]) = "chat"
             /\ tokens_sent' = tokens_sent
             /\ io'.raised \/ io'.reply = Saved]_vars

\* A message was acknowledged in step 'chat' although the row of the
\* staged email is gone.
C11_Witness ==
    /\ io.conv \in Convs /\ io.reply = Saved
    /\ Step(user_data[io.conv]) = "chat"
    /\ RowsWithEmail(users, user_data[io.conv].email) = {}

\* C17 (as stated): a restart leaves every record as it is and discards
\* the contexts of the conversations that have not registered, while a
\* conversation in step 'chat' continues: its next message is still handled
\* in step 'chat' under its staged email, whose record is in the table.
C17_RestartKeepsRegistered ==
    [][io' = Stopped =>
          /\ users' = users
          /\ \A c \in Convs :
                IF Step(user_data[c]) = "chat"
                THEN /\ Step(user_data'[c]) = "chat"
                     /\ RowsWithEmail(users', Get(user_data'[c], "email", None)) # {}
                ELSE user_data'[c] = EmptyDict]_vars

\* C17 (amended): a restart leaves every record as it is and discards every
\* context, also of the conversations in step 'chat'; the next message of a
\* conversation without a context is taken as its name and changes no
\* record.
C17_RestartForgetsEveryone ==
    [][/\ io' = Stopped =>
             /\ users' = users
             /\ \A c \in Convs : DOMAIN user_data'[c] = {}
       /\ \A c \in Convs :
             (TextOf(c) /\ DOMAIN user_data[c] = {}) =>
                /\ users' = users
                /\ user_data'[c].name = io'.text]_vars

\* After a restart the message of a conversation that had registered and
\* chatted was taken as a name: its record keeps the history it had.
C17_Witness ==
    /\ \E r \in 1..Len(users) : users[r].conversation_history # <<>>
    /\ \A c \in Convs : "email" \notin DOMAIN user_data[c]
    /\ io.conv \in Convs /\ io.reply = EmailPrompt(io.text)

\* The email grammar as the claim words it: L '@' D '.' T with L and D
\* non-empty over word characters, '.' and '-', T non-empty over word
\* characters, and nothing before or after.
MatchesGrammar(s) ==
    \E i, j \in 1..Len(s) :
       /\ i < j
       /\ LET L == SubSeq(s, 1, i - 1)
              D == SubSeq(s, i + 1, j - 1)
              T == SubSeq(s, j + 1, Len(s))
          IN /\ s = L \o <<"@">> \o D \o <<".">> \o T
             /\ L # <<>> /\ D # <<>> /\ T # <<>>
             /\ \A k \in 1..Len(L) : L[k] \in {"a", "A", ".", "-"}
             /\ \A k \in 1..Len(D) : D[k] \in {"a", "A", ".", "-"}
             /\ \A k \in 1..Len(T) : T[k] \in {"a", "A"}

\* The text with its letters in lower case.
LowerCase(s) == [k \in 1..Len(s) |-> IF s[k] = "A" THEN "a" ELSE s[k]]

\* C12 (as stated): a text submitted in step 'email' is taken as an email
\* (a token is generated for it) exactly when it matches the grammar, a
\* trailing newline not being accepted; it is stored as typed, so an email
\* that differs from a registered one only in letter case is registered as
\* one more record when its token is new.
C12_EmailGrammar ==
    [][(TextOf(1) /\ Step(user_data[1]) = "email") =>
          /\ io'.token # None <=> MatchesGrammar(io'.text)
          /\ ~io'.raised =>
                (io'.reply = InvalidFormat <=> ~MatchesGrammar(io'.text))
          /\ (/\ MatchesGrammar(io'.text)
              /\ io'.text # Registered
              /\ LowerCase(io'.text) = Registered
              /\ RowsWithToken(users, io'.token) = {}) =>
                /\ Len(users') = Len(users) + 1
                /\ users'[Len(users')].email = io'.text]_vars

\* A handler of a text message of c has just started and is suspended at
\* its reply.
TextBegan(c) ==
    /\ io' = Started(c, FALSE, io'.text, None)
    /\ BagCardinality(awaiting') = BagCardinality(awaiting) + 1

\* The handlers of c's chat messages that are suspended at their reply.
ChatHandlers(c) ==
    {h \in BagToSet(awaiting) : h.conv = c /\ h.reply = Saved}

\* C15 (as stated): the append is a read followed by a separate write, not
\* one atomic step: the step in which the handler of a chat message starts
\* and reads the history leaves the table as it is, the write is a later
\* step that other handlers can come before.
C15_ReadAndWriteAreSeparateSteps ==
    [][\A c \in Convs :
          (TextBegan(c) /\ Step(user_data[c]) = "chat") => users' = users]_vars

\* C15 (amended): the append is one atomic step of the handler: the step
\* that reads the history of the staged email also writes it with the new
\* message appended and suspends the handler at its acknowledgment; so
\* with handlers overlapping in every possible way the history of a record
\* holds every message handled under its email, in the order the handlers
\* started, each once.
C15_AppendIsAtomic ==
    /\ [](\A e \in Texts : \A r \in RowsWithEmail(users, e) :
             users[r].conversation_history = Serialized(chat_msgs[e]))
    /\ [][\A c \in Convs :
             (TextBegan(c) /\ Step(user_data[c]) = "chat") =>
                LET email == Get(user_data[c], "email", None)
                IN /\ \A r \in RowsWithEmail(users, email) :
                         users'[r].conversation_history =
                            NewHistory(users[r].conversation_history, io'.text)
                   /\ awaiting' = awaiting (+)
                         SetToBag({Suspended(c, FALSE, io'.text, None, Saved, "none")})]_vars

\* Two handlers of chat messages of one conversation are suspended at the
\* same time and the history holds both messages.
C15_Witness ==
    \E c \in Convs :
       /\ Step(user_data[c]) = "chat"
       /\ BagCardinality([h \in ChatHandlers(c) |-> awaiting[h]]) = 2
       /\ LET email == Get(user_data[c], "email", None)
          IN /\ email \in Texts
             /\ Len(chat_msgs[email]) = 2
             /\ \E r \in RowsWithEmail(users, email) :
                   users[r].conversation_history = Serialized(chat_msgs[email])

====
